---- MODULE Spec2Model ----
(***************************************************************************)
(* Incremental processing of the F1 pipeline (src/src/incremental_          *)
(* processing.py): the processing-state file, the year planner and the     *)
(* per-table read / transform / merge / write / commit cycle, run by       *)
(* successive processes that may fail or die between steps.                *)
(*                                                                         *)
(* A dataset is the sequence of its rows and a row is represented by the   *)
(* year it belongs to (its own year column, or the year joined in from     *)
(* races through raceId).                                                  *)
(***************************************************************************)
EXTENDS Integers, Sequences, FiniteSets, TLC

VARIABLES
    bronze,           \* disk: [table -> [exists, rows]] bronze parquet files
    silver,           \* disk: [table -> [kind, rows]] silver parquet files
    state_file,       \* disk: [kind, data] logs/processing_state.json
    transformed_columns, \* [table -> columns of the frame its transform returns]
    silver_columns,   \* disk: [table -> columns of the silver parquet file]
    pc,               \* position of the running process ("idle": none)
    command,          \* sys.argv[1] of the running process
    target,           \* argument of reset_state ("ALL": no table given)
    state,            \* self.state
    is_initial_load,  \* argument of process_all_incremental
    idx,              \* position of the loop over TABLES_WITH_YEAR
    years_to_process, \* local of process_table_incremental
    df_final,         \* local of process_table_incremental
    df_columns,       \* df_final.columns
    warning,          \* log: the schema warning of this call
    stats_list,       \* local of process_all_incremental
    plans,            \* history: plan computed for each table in this run
    saved_file,       \* history: state file as it was before the last save
    prev,             \* history: how the previous process ended
    dirty,            \* history: bronze changed since the last process
    runs, faults, ingests, resets,  \* history: events so far, by kind
    call,             \* a call of get_years_to_process on its own: [available_years, result]
    procs             \* two more processor instances: [p -> [pc, state, initial, idx]]

vars == <<bronze, silver, state_file, transformed_columns, silver_columns,
          df_columns, warning, pc, command, target, state, is_initial_load,
          idx, years_to_process, df_final, stats_list, plans, saved_file,
          prev, dirty, runs, faults, ingests, resets, call, procs>>

disk == <<bronze, silver, state_file, transformed_columns, silver_columns>>
locals == <<years_to_process, df_final, df_columns, warning>>
counters == <<runs, faults, ingests, resets>>
others == <<call, procs>>

----------------------------------------------------------------------------
(* Bound of the exploration: process starts, resets, ingests, injected
   failures and crashes, all together *)
MaxEvents == 3

Budget == runs + faults + ingests + resets < MaxEvents

(* Program constants *)
INITIAL_LOAD_YEAR == 2010

TABLES_WITH_YEAR == <<"races", "results">>

TableSet == {TABLES_WITH_YEAR[i] : i \in DOMAIN TABLES_WITH_YEAR}

DIMENSION_TABLES == {"circuits", "drivers"}

(* Table names a caller may pass besides the fact tables: the dimension
   tables and a name that is in neither list *)
OtherTables == DIMENSION_TABLES \cup {"weather"}

(* a test that takes every table outside DIMENSION_TABLES for a fact table *)
has_year_column_not_dimension(table_name) == table_name \notin DIMENSION_TABLES

has_year_column(table_name) == table_name \in TableSet

Years == {2005, 2008, 2010, 2012, 2015}

(* The year of a row whose raceId matches no race: the left join leaves it
   null. Python compares None with nothing: see year_error *)
None == 0

----------------------------------------------------------------------------
(* Python built-ins used by the code *)

ToSet(seq) == {seq[i] : i \in DOMAIN seq}

Count(seq, y) == Cardinality({i \in DOMAIN seq : seq[i] = y})

RECURSIVE SortedList(_)
SortedList(S) ==
    IF S = {} THEN <<>>
    ELSE LET m == CHOOSE x \in S : \A y \in S : x <= y
         IN <<m>> \o SortedList(S \ {m})

RECURSIVE sorted(_)
sorted(seq) ==
    IF seq = <<>> THEN <<>>
    ELSE LET m == CHOOSE i \in DOMAIN seq : \A j \in DOMAIN seq : seq[i] <= seq[j]
         IN <<seq[m]>> \o sorted(SubSeq(seq, 1, m - 1) \o SubSeq(seq, m + 1, Len(seq)))

EmptyDict == [t \in {} |-> <<>>]

----------------------------------------------------------------------------
(* The processing state *)

NoFile == [kind |-> "none", data |-> EmptyDict]
Truncated == [kind |-> "truncated", data |-> EmptyDict]
JsonFile(d) == [kind |-> "json", data |-> d]

load_state(file) == IF file.kind = "json" THEN file.data ELSE EmptyDict

get_processed_years(st, table_name) ==
    IF table_name \in DOMAIN st THEN ToSet(st[table_name]) ELSE {}

(* a commit that replaces the list instead of merging into it *)
mark_years_processed_overwrite(st, table_name, years) ==
    [k \in DOMAIN st \cup {table_name} |->
        IF k = table_name THEN SortedList(ToSet(years)) ELSE st[k]]

mark_years_processed(st, table_name, years) ==
    [k \in DOMAIN st \cup {table_name} |->
        IF k = table_name
        THEN SortedList(get_processed_years(st, table_name) \cup ToSet(years))
        ELSE st[k]]

(* a planner whose initial load stops before the cutoff year *)
get_years_to_process_strict(st, table_name, available_years, initial) ==
    LET processed_years == get_processed_years(st, table_name)
    IN IF initial /\ processed_years = {}
       THEN sorted(SelectSeq(available_years, LAMBDA y : y < INITIAL_LOAD_YEAR))
       ELSE sorted(SelectSeq(available_years, LAMBDA y : y \notin processed_years))

(* a planner that resumes from the newest processed year, that year included *)
get_years_to_process_from_max(st, table_name, available_years, initial) ==
    LET processed_years == get_processed_years(st, table_name)
    IN IF initial /\ processed_years = {}
       THEN sorted(SelectSeq(available_years, LAMBDA y : y <= INITIAL_LOAD_YEAR))
       ELSE sorted(SelectSeq(available_years,
                LAMBDA y : \A z \in processed_years : y >= z))

(* a planner that bootstraps when either condition holds *)
get_years_to_process_either(st, table_name, available_years, initial) ==
    LET processed_years == get_processed_years(st, table_name)
    IN IF initial \/ processed_years = {}
       THEN sorted(SelectSeq(available_years, LAMBDA y : y <= INITIAL_LOAD_YEAR))
       ELSE sorted(SelectSeq(available_years, LAMBDA y : y \notin processed_years))

(* a planner whose incremental branch only looks past the cutoff year *)
get_years_to_process_above_cutoff(st, table_name, available_years, initial) ==
    LET processed_years == get_processed_years(st, table_name)
    IN IF initial /\ processed_years = {}
       THEN sorted(SelectSeq(available_years, LAMBDA y : y <= INITIAL_LOAD_YEAR))
       ELSE sorted(SelectSeq(available_years,
                LAMBDA y : y \notin processed_years /\ y > INITIAL_LOAD_YEAR))

get_years_to_process(st, table_name, available_years, initial) ==
    LET processed_years == get_processed_years(st, table_name)
    IN IF initial /\ processed_years = {}
       THEN sorted(SelectSeq(available_years, LAMBDA y : y <= INITIAL_LOAD_YEAR))
       ELSE sorted(SelectSeq(available_years, LAMBDA y : y \notin processed_years))

(* a reset of one table that drops every table *)
reset_table_all(st, table_name) == EmptyDict

(* del self.state[table_name] *)
reset_table(st, table_name) == [k \in DOMAIN st \ {table_name} |-> st[k]]

----------------------------------------------------------------------------
(* Datasets on disk *)

NoParquet == [kind |-> "none", rows |-> <<>>]
CorruptParquet == [kind |-> "corrupt", rows |-> <<>>]
Parquet(rows) == [kind |-> "parquet", rows |-> rows]

NoBronze == [exists |-> FALSE, rows |-> <<>>]
Bronze(rows) == [exists |-> TRUE, rows |-> rows]

InitBronze ==
    {NoBronze, Bronze(<<2005, 2008, 2012, 2015>>), Bronze(<<2012, 2010>>),
     Bronze(<<2015>>)}

(* available_years = sorted(df_with_year['year'].unique().to_list()) *)
available_years(table_name) == SortedList(ToSet(bronze[table_name].rows))

(* df_with_year.filter(pl.col('year').is_in(years_to_process)) *)
filter_years(rows, years) == SelectSeq(rows, LAMBDA y : y \in ToSet(years))

(* every transform_<table> is a with_columns: one output row per input row *)
transform(rows) == rows

appends(table_name) == silver[table_name].kind # "none" /\ ~is_initial_load

(* Column names, in the order sorted() gives them *)
ALPHABET == <<"A", "B", "C", "D">>

sorted_names(S) == SelectSeq(ALPHABET, LAMBDA c : c \in S)

(* Columns of a transformed frame: as first loaded, with one column
   replaced by another, and with the same columns in another order *)
InitColumns == <<"A", "B", "D">>

ColumnLists == {InitColumns, <<"A", "B", "C">>, <<"B", "A", "D">>}

NoWarning == [mismatch |-> FALSE, existing_only |-> {}, new_only |-> {}]

(* logger.warning of the columns found on one side only *)
schema_warning(existing_cols, new_cols) ==
    IF existing_cols # new_cols
    THEN [mismatch |-> TRUE,
          existing_only |-> existing_cols \ new_cols,
          new_only |-> new_cols \ existing_cols]
    ELSE NoWarning

(* an alignment that keeps every column of either side *)
align_columns_union(existing, new) ==
    LET existing_cols == ToSet(existing)
        new_cols == ToSet(new)
    IN IF existing_cols # new_cols
       THEN <<sorted_names(existing_cols \cup new_cols),
              sorted_names(existing_cols \cup new_cols)>>
       ELSE <<existing, new>>

(* The columns of df_existing and of df_transformed as they enter pl.concat:
   both projected on the sorted common columns when the column sets differ *)
align_columns(existing, new) ==
    LET existing_cols == ToSet(existing)
        new_cols == ToSet(new)
        common_cols == existing_cols \cap new_cols
    IN IF existing_cols # new_cols
       THEN <<sorted_names(common_cols), sorted_names(common_cols)>>
       ELSE <<existing, new>>

(* pl.concat stacks frames whose columns agree in name and position *)
concat_raises(table_name) ==
    /\ appends(table_name)
    /\ silver[table_name].kind = "parquet"
    /\ LET aligned == align_columns(silver_columns[table_name],
                                    transformed_columns[table_name])
       IN aligned[1] # aligned[2]

(* df_final.columns *)
merge_columns(table_name) ==
    IF appends(table_name)
    THEN align_columns(silver_columns[table_name],
                       transformed_columns[table_name])[1]
    ELSE transformed_columns[table_name]

(* what the call logs about the schema *)
merge_warning(table_name) ==
    IF appends(table_name)
    THEN schema_warning(ToSet(silver_columns[table_name]),
                        ToSet(transformed_columns[table_name]))
    ELSE NoWarning

(* a merge that puts the new rows before the existing ones *)
merge_new_first(table_name, df_transformed) ==
    IF appends(table_name)
    THEN df_transformed \o silver[table_name].rows
    ELSE df_transformed

(* df_final: pl.concat([df_existing, df_transformed]) or df_transformed *)
merge(table_name, df_transformed) ==
    IF appends(table_name)
    THEN silver[table_name].rows \o df_transformed
    ELSE df_transformed

----------------------------------------------------------------------------
(* History records *)

NoPlans == [t \in TableSet |-> <<>>]

NoPrev ==
    [kind |-> "none", pc |-> "idle", initial |-> FALSE, idx |-> 0,
     stats |-> <<>>, plans |-> NoPlans, state |-> EmptyDict, exit |-> "none"]

(* Keys of the dict process_table_incremental returns, by status *)
entry_columns(status) ==
    CASE status = "success" ->
             {"table_name", "status", "years_processed", "rows_processed",
              "total_rows"}
      [] status = "up_to_date" -> {"table_name", "status", "rows_processed"}
      [] status = "skipped" -> {"table_name", "status", "reason"}
      [] OTHER -> {"table_name", "status", "error"}

(* Columns of pl.DataFrame(stats_list) *)
summary_columns(stats) ==
    UNION {entry_columns(stats[i].status) : i \in DOMAIN stats}

(* How main() ends after process_all_incremental returned: it flattens the
   summary with pl.col('years_processed'), 'rows_processed' and 'total_rows'
   when the summary has rows, which raises when a column is missing; it
   never looks at the status column *)
main_exit(stats) ==
    IF /\ Len(stats) > 0
       /\ ~({"years_processed", "rows_processed", "total_rows"}
                \subseteq summary_columns(stats))
    THEN "error"
    ELSE "success"

Ended(kind) ==
    [kind |-> kind, pc |-> pc, initial |-> is_initial_load, idx |-> idx,
     stats |-> stats_list, plans |-> plans, state |-> state,
     exit |-> IF kind = "run" THEN main_exit(stats_list)
              ELSE IF kind = "reset" THEN "success"
              ELSE "error"]

Entry(table_name, status, error, years) ==
    [table_name |-> table_name, status |-> status, error |-> error,
     years_processed |-> years]

(* No call of the planner on its own, no further processor instance *)
NoCall == [available_years |-> <<>>, result |-> <<>>, returned |-> FALSE]

Processors == {1, 2}

NoProcs ==
    [p \in Processors |->
        [pc |-> "none", state |-> EmptyDict, initial |-> FALSE, idx |-> 0]]

----------------------------------------------------------------------------
Init ==
    /\ bronze \in [TableSet -> InitBronze]
    /\ silver = [t \in TableSet |-> NoParquet]
    /\ state_file = NoFile
    /\ pc = "idle"
    /\ command = ""
    /\ target = ""
    /\ state = EmptyDict
    /\ is_initial_load = FALSE
    /\ idx = 0
    /\ years_to_process = <<>>
    /\ df_final = <<>>
    /\ df_columns = <<>>
    /\ warning = NoWarning
    /\ transformed_columns = [t \in TableSet |-> InitColumns]
    /\ silver_columns = [t \in TableSet |-> <<>>]
    /\ stats_list = <<>>
    /\ plans = NoPlans
    /\ saved_file = NoFile
    /\ prev = NoPrev
    /\ dirty = FALSE
    /\ runs = 0
    /\ faults = 0
    /\ ingests = 0
    /\ resets = 0
    /\ call = NoCall
    /\ procs = NoProcs

(* the process is gone: its memory with it *)
ProcessEnds(kind) ==
    /\ prev' = Ended(kind)
    /\ pc' = "idle"
    /\ command' = ""
    /\ target' = ""
    /\ state' = EmptyDict
    /\ is_initial_load' = FALSE
    /\ idx' = 0
    /\ years_to_process' = <<>>
    /\ df_final' = <<>>
    /\ df_columns' = <<>>
    /\ warning' = NoWarning
    /\ stats_list' = <<>>
    /\ plans' = NoPlans
    /\ dirty' = FALSE

(* process_all_incremental: stats_list.append(stats) and the next iteration *)
NextTable(stats) ==
    /\ stats_list' = Append(stats_list, stats)
    /\ idx' = idx + 1
    /\ pc' = IF idx + 1 > Len(TABLES_WITH_YEAR) THEN "done" ELSE "table"
    /\ years_to_process' = <<>>
    /\ df_final' = <<>>
    /\ df_columns' = <<>>
    /\ warning' = NoWarning

(* new rows of one more year arrive in a bronze file between two runs *)
Ingest(t, y) ==
    /\ pc = "idle"
    /\ Budget
    /\ y \notin ToSet(bronze[t].rows)
    /\ bronze' = [bronze EXCEPT ![t] = Bronze(Append(bronze[t].rows, y))]
    /\ dirty' = TRUE
    /\ ingests' = ingests + 1
    /\ UNCHANGED <<others, transformed_columns, silver_columns, silver, state_file, pc, command, target, state, is_initial_load,
                   idx, years_to_process, df_final, df_columns, warning, stats_list, plans,
                   saved_file, prev, runs, faults, resets>>

(* the transformed frame of a table gets other columns between two runs:
   the bronze file or the transformation was changed *)
SchemaChange(t, cols) ==
    /\ pc = "idle"
    /\ Budget
    /\ cols # transformed_columns[t]
    /\ transformed_columns' = [transformed_columns EXCEPT ![t] = cols]
    /\ dirty' = TRUE
    /\ ingests' = ingests + 1
    /\ UNCHANGED <<others, bronze, silver, state_file, silver_columns, pc, command,
                   target, state, is_initial_load, idx, locals, stats_list,
                   plans, saved_file, prev, runs, faults, resets>>

(* a start that takes the absence of the file, not the emptiness of the
   loaded state, as the sign of a first run *)
Start_by_file(cmd) ==
    /\ pc = "idle"
    /\ Budget
    /\ state_file.kind # "truncated"
    /\ state' = load_state(state_file)
    /\ command' = cmd
    /\ target' = ""
    /\ is_initial_load' = IF cmd = "auto" THEN state_file.kind = "none"
                          ELSE cmd = "initial"
    /\ pc' = "table"
    /\ idx' = 1
    /\ stats_list' = <<>>
    /\ plans' = NoPlans
    /\ runs' = runs + 1
    /\ UNCHANGED <<others, disk, locals, saved_file, prev, dirty, faults, ingests, resets>>

(* main(): IncrementalProcessor() loads the state, then the mode is chosen *)
Start(cmd) ==
    /\ pc = "idle"
    /\ Budget
    /\ state_file.kind # "truncated"
    /\ state' = load_state(state_file)
    /\ command' = cmd
    /\ target' = ""
    /\ is_initial_load' = IF cmd = "auto" THEN DOMAIN state' = {}
                          ELSE cmd = "initial"
    /\ pc' = "table"
    /\ idx' = 1
    /\ stats_list' = <<>>
    /\ plans' = NoPlans
    /\ runs' = runs + 1
    /\ UNCHANGED <<others, disk, locals, saved_file, prev, dirty, faults, ingests, resets>>

(* a loader that takes an unparsable file for an empty state *)
StartFails_as_empty ==
    /\ pc = "idle"
    /\ Budget
    /\ state_file.kind = "truncated"
    /\ state' = EmptyDict
    /\ command' = "auto"
    /\ target' = ""
    /\ is_initial_load' = TRUE
    /\ pc' = "table"
    /\ idx' = 1
    /\ stats_list' = <<>>
    /\ plans' = NoPlans
    /\ runs' = runs + 1
    /\ UNCHANGED <<others, disk, locals, saved_file, prev, dirty, faults, ingests, resets>>

(* json.load raises in the constructor: no table is processed *)
StartFails ==
    /\ pc = "idle"
    /\ Budget
    /\ state_file.kind = "truncated"
    /\ prev' = [NoPrev EXCEPT !.kind = "load_error", !.exit = "error"]
    /\ dirty' = FALSE
    /\ runs' = runs + 1
    /\ UNCHANGED <<others, disk, pc, command, target, state, is_initial_load, idx, locals,
                   stats_list, plans, saved_file, faults, ingests, resets>>

----------------------------------------------------------------------------
(* process_table_incremental, for the table the loop is at *)

table_name == TABLES_WITH_YEAR[idx]

plan_of(t) == get_years_to_process(state, t, available_years(t), is_initial_load)

Planned(t) == plans' = [plans EXCEPT ![t] = plan_of(t)]

(* bronze_file.exists() is false *)
BronzeNotFound ==
    /\ pc = "table"
    /\ ~bronze[table_name].exists
    /\ NextTable(Entry(table_name, "failed", "bronze_file_not_found", <<>>))
    /\ UNCHANGED <<others, disk, command, target, state, is_initial_load, plans, saved_file,
                   prev, dirty, counters>>

(* pl.read_parquet(bronze_path / "races.parquet") raises *)
RacesNotFound ==
    /\ pc = "table"
    /\ bronze[table_name].exists
    /\ ~bronze["races"].exists
    /\ NextTable(Entry(table_name, "failed", "read_error", <<>>))
    /\ UNCHANGED <<others, disk, command, target, state, is_initial_load, plans, saved_file,
                   prev, dirty, counters>>

(* A TypeError on a null year: sorted() of the distinct years when None is
   one of several, or `y <= INITIAL_LOAD_YEAR` in the bootstrap branch of
   get_years_to_process when None is the only one *)
year_error(t) ==
    /\ None \in ToSet(bronze[t].rows)
    /\ \/ ToSet(bronze[t].rows) # {None}
       \/ is_initial_load /\ get_processed_years(state, t) = {}

(* the TypeError is caught by the except branch *)
YearRaises ==
    /\ pc = "table"
    /\ bronze[table_name].exists
    /\ bronze["races"].exists
    /\ year_error(table_name)
    /\ NextTable(Entry(table_name, "failed", "type_error", <<>>))
    /\ UNCHANGED <<others, disk, command, target, state, is_initial_load, plans,
                   saved_file, prev, dirty, counters>>

(* both files are read and the years of the table are found *)
BronzeRead ==
    /\ pc = "table"
    /\ bronze[table_name].exists
    /\ bronze["races"].exists
    /\ ~year_error(table_name)

(* an empty plan that goes through the commit all the same *)
UpToDate_commits ==
    /\ BronzeRead
    /\ plan_of(table_name) = <<>>
    /\ Planned(table_name)
    /\ state' = mark_years_processed(state, table_name, <<>>)
    /\ state_file' = JsonFile(state')
    /\ NextTable(Entry(table_name, "up_to_date", "", <<>>))
    /\ UNCHANGED <<others, transformed_columns, silver_columns, bronze, silver, command, target, is_initial_load, saved_file, prev,
                   dirty, counters>>

(* not years_to_process: return 'up_to_date' *)
UpToDate ==
    /\ BronzeRead
    /\ plan_of(table_name) = <<>>
    /\ Planned(table_name)
    /\ NextTable(Entry(table_name, "up_to_date", "", <<>>))
    /\ UNCHANGED <<others, disk, command, target, state, is_initial_load, saved_file, prev,
                   dirty, counters>>

(* a transform error that escapes the loop: the remaining tables are skipped *)
TransformRaises_aborts ==
    /\ BronzeRead
    /\ plan_of(table_name) # <<>>
    /\ Budget
    /\ faults' = faults + 1
    /\ Planned(table_name)
    /\ stats_list' = Append(stats_list,
           Entry(table_name, "failed", "transform_error", <<>>))
    /\ idx' = idx + 1
    /\ pc' = "done"
    /\ UNCHANGED <<others, disk, command, target, state, is_initial_load, locals, saved_file,
                   prev, dirty, runs, ingests, resets>>

(* transform_<table> raises *)
TransformRaises ==
    /\ BronzeRead
    /\ plan_of(table_name) # <<>>
    /\ Budget
    /\ faults' = faults + 1
    /\ Planned(table_name)
    /\ NextTable(Entry(table_name, "failed", "transform_error", <<>>))
    /\ UNCHANGED <<others, disk, command, target, state, is_initial_load, saved_file, prev,
                   dirty, runs, ingests, resets>>

(* pl.read_parquet(silver_file) raises on a file a failed write left behind *)
SilverReadRaises ==
    /\ BronzeRead
    /\ plan_of(table_name) # <<>>
    /\ appends(table_name)
    /\ silver[table_name].kind = "corrupt"
    /\ Planned(table_name)
    /\ NextTable(Entry(table_name, "failed", "read_error", <<>>))
    /\ UNCHANGED <<others, disk, command, target, state, is_initial_load, saved_file, prev,
                   dirty, counters>>

(* pl.concat raises: the two frames have the same columns in another order *)
ConcatRaises ==
    /\ BronzeRead
    /\ plan_of(table_name) # <<>>
    /\ concat_raises(table_name)
    /\ Planned(table_name)
    /\ NextTable(Entry(table_name, "failed", "concat_error", <<>>))
    /\ UNCHANGED <<others, disk, command, target, state, is_initial_load, saved_file, prev,
                   dirty, counters>>

(* a call that marks the planned years before the silver file is written *)
Prepare_commits_first ==
    /\ BronzeRead
    /\ plan_of(table_name) # <<>>
    /\ ~(appends(table_name) /\ silver[table_name].kind = "corrupt")
    /\ ~concat_raises(table_name)
    /\ None \notin ToSet(plan_of(table_name))
    /\ Planned(table_name)
    /\ years_to_process' = plan_of(table_name)
    /\ df_final' = merge(table_name,
           transform(filter_years(bronze[table_name].rows, plan_of(table_name))))
    /\ state' = mark_years_processed(state, table_name, plan_of(table_name))
    /\ df_columns' = merge_columns(table_name)
    /\ warning' = merge_warning(table_name)
    /\ pc' = "write"
    /\ UNCHANGED <<others, disk, command, target, is_initial_load, idx, stats_list,
                   saved_file, prev, dirty, counters>>

(* plan, filter, transform and build df_final *)
Prepare ==
    /\ BronzeRead
    /\ plan_of(table_name) # <<>>
    /\ ~(appends(table_name) /\ silver[table_name].kind = "corrupt")
    /\ ~concat_raises(table_name)
    /\ None \notin ToSet(plan_of(table_name))
    /\ Planned(table_name)
    /\ years_to_process' = plan_of(table_name)
    /\ df_final' = merge(table_name,
           transform(filter_years(bronze[table_name].rows, plan_of(table_name))))
    /\ df_columns' = merge_columns(table_name)
    /\ warning' = merge_warning(table_name)
    /\ pc' = "write"
    /\ UNCHANGED <<others, disk, command, target, state, is_initial_load, idx, stats_list,
                   saved_file, prev, dirty, counters>>

(* the plan is [None]: whether is_in keeps the rows with a null year depends
   on the polars release, so the filter keeps them or drops them *)
PrepareNull(kept) ==
    /\ BronzeRead
    /\ plan_of(table_name) # <<>>
    /\ ~(appends(table_name) /\ silver[table_name].kind = "corrupt")
    /\ ~concat_raises(table_name)
    /\ None \in ToSet(plan_of(table_name))
    /\ Planned(table_name)
    /\ years_to_process' = plan_of(table_name)
    /\ df_final' = merge(table_name,
           transform(IF kept
                     THEN filter_years(bronze[table_name].rows, plan_of(table_name))
                     ELSE <<>>))
    /\ df_columns' = merge_columns(table_name)
    /\ warning' = merge_warning(table_name)
    /\ pc' = "write"
    /\ UNCHANGED <<others, disk, command, target, state, is_initial_load, idx, stats_list,
                   saved_file, prev, dirty, counters>>

(* df_final.write_parquet(silver_file) *)
WriteSilver ==
    /\ pc = "write"
    /\ silver' = [silver EXCEPT ![table_name] = Parquet(df_final)]
    /\ silver_columns' = [silver_columns EXCEPT ![table_name] = df_columns]
    /\ pc' = "commit"
    /\ UNCHANGED <<others, transformed_columns, bronze, state_file, command, target, state, is_initial_load, idx,
                   locals, stats_list, plans, saved_file, prev, dirty, counters>>

(* a failed write whose years are committed all the same *)
WriteRaises_commits(partial) ==
    /\ pc = "write"
    /\ Budget
    /\ faults' = faults + 1
    /\ silver' = IF partial THEN [silver EXCEPT ![table_name] = CorruptParquet]
                 ELSE silver
    /\ silver_columns' = IF partial THEN [silver_columns EXCEPT ![table_name] = <<>>]
                         ELSE silver_columns
    /\ state' = mark_years_processed(state, table_name, years_to_process)
    /\ state_file' = JsonFile(state')
    /\ NextTable(Entry(table_name, "failed", "write_error", <<>>))
    /\ UNCHANGED <<others, transformed_columns, bronze, command, target, is_initial_load, plans,
                   saved_file, prev, dirty, runs, ingests, resets>>

(* write_parquet raises: before the file was opened, or part way through *)
WriteRaises(partial) ==
    /\ pc = "write"
    /\ Budget
    /\ faults' = faults + 1
    /\ silver' = IF partial THEN [silver EXCEPT ![table_name] = CorruptParquet]
                 ELSE silver
    /\ silver_columns' = IF partial THEN [silver_columns EXCEPT ![table_name] = <<>>]
                         ELSE silver_columns
    /\ NextTable(Entry(table_name, "failed", "write_error", <<>>))
    /\ UNCHANGED <<others, transformed_columns, bronze, state_file, command, target, state, is_initial_load, plans,
                   saved_file, prev, dirty, runs, ingests, resets>>

(* mark_years_processed up to open(state_file, 'w') in _save_state *)
Commit ==
    /\ pc = "commit"
    /\ state' = mark_years_processed(state, table_name, years_to_process)
    /\ saved_file' = state_file
    /\ state_file' = Truncated
    /\ pc' = "save"
    /\ UNCHANGED <<others, transformed_columns, silver_columns, bronze, silver, command, target, is_initial_load, idx, locals,
                   stats_list, plans, prev, dirty, counters>>

(* _save_state raises inside mark_years_processed, at open() or part way
   through json.dump: self.state is already updated, and the except branch
   returns 'failed' *)
SaveRaises(partial) ==
    /\ pc = "commit"
    /\ Budget
    /\ faults' = faults + 1
    /\ state' = mark_years_processed(state, table_name, years_to_process)
    /\ saved_file' = state_file
    /\ state_file' = IF partial THEN Truncated ELSE state_file
    /\ NextTable(Entry(table_name, "failed", "save_error", <<>>))
    /\ UNCHANGED <<others, bronze, silver, transformed_columns, silver_columns, command,
                   target, is_initial_load, plans, prev, dirty, runs, ingests,
                   resets>>

(* json.dump and close in _save_state, then the 'success' stats *)
SaveState ==
    /\ pc = "save"
    /\ state_file' = JsonFile(state)
    /\ NextTable(Entry(table_name, "success", "", years_to_process))
    /\ UNCHANGED <<others, transformed_columns, silver_columns, bronze, silver, command, target, state, is_initial_load, plans,
                   saved_file, prev, dirty, counters>>

(* process_all_incremental returns its summary and main() ends *)
Finish ==
    /\ pc = "done"
    /\ ProcessEnds("run")
    /\ UNCHANGED <<others, disk, saved_file, counters>>

(* the process dies between two steps *)
Crash ==
    /\ pc \notin {"idle", "done"}
    /\ Budget
    /\ faults' = faults + 1
    /\ ProcessEnds("crash")
    /\ UNCHANGED <<others, disk, saved_file, runs, ingests, resets>>

----------------------------------------------------------------------------
(* reset_state, run by its own process *)

ResetTargets == TableSet \cup {"ALL"}

reset_state(st, tgt) ==
    IF tgt = "ALL" THEN EmptyDict ELSE reset_table(st, tgt)

Reset(tgt) ==
    /\ pc = "idle"
    /\ Budget
    /\ state_file.kind # "truncated"
    /\ state' = reset_state(load_state(state_file), tgt)
    /\ command' = "reset"
    /\ target' = tgt
    /\ saved_file' = state_file
    /\ state_file' = Truncated
    /\ pc' = "reset_save"
    /\ resets' = resets + 1
    /\ UNCHANGED <<others, transformed_columns, silver_columns, bronze, silver, is_initial_load, idx, locals, stats_list,
                   plans, prev, dirty, runs, faults, ingests>>

ResetSave ==
    /\ pc = "reset_save"
    /\ state_file' = JsonFile(state)
    /\ ProcessEnds("reset")
    /\ UNCHANGED <<others, transformed_columns, silver_columns, bronze, silver, saved_file, counters>>

----------------------------------------------------------------------------
(* process_table_incremental called by its own process for a table outside
   the loop of process_all_incremental: 'skipped' when the table has no year
   column; otherwise the table has no bronze file and the call fails *)
DirectCall(t) ==
    /\ pc = "idle"
    /\ Budget
    /\ state_file.kind # "truncated"
    /\ runs' = runs + 1
    /\ prev' = [NoPrev EXCEPT
                   !.kind = "call",
                   !.state = load_state(state_file),
                   !.stats = IF ~has_year_column(t)
                             THEN <<Entry(t, "skipped", "dimension_table", <<>>)>>
                             ELSE <<Entry(t, "failed", "bronze_file_not_found", <<>>)>>]
    /\ dirty' = FALSE
    /\ UNCHANGED <<others, disk, pc, command, target, state, is_initial_load, idx,
                   locals, stats_list, plans, saved_file, faults, ingests,
                   resets>>

----------------------------------------------------------------------------
Next ==
    \/ \E t \in TableSet, y \in Years \cup {None} : Ingest(t, y)
    \/ \E t \in TableSet, cols \in ColumnLists : SchemaChange(t, cols)
    \/ \E cmd \in {"auto", "initial", "incremental"} : Start(cmd)
    \/ StartFails
    \/ BronzeNotFound
    \/ RacesNotFound
    \/ UpToDate
    \/ TransformRaises
    \/ SilverReadRaises
    \/ ConcatRaises
    \/ Prepare
    \/ \E kept \in BOOLEAN : PrepareNull(kept)
    \/ YearRaises
    \/ WriteSilver
    \/ \E partial \in BOOLEAN : WriteRaises(partial)
    \/ Commit
    \/ SaveState
    \/ \E partial \in BOOLEAN : SaveRaises(partial)
    \/ Finish
    \/ Crash
    \/ \E tgt \in ResetTargets : Reset(tgt)
    \/ ResetSave
    \/ \E t \in OtherTables : DirectCall(t)

Spec == Init /\ [][Next]_vars

----------------------------------------------------------------------------
(* Vocabulary of the properties *)

Running == pc \in {"table", "write", "commit", "save", "done"}

Indexes == DOMAIN TABLES_WITH_YEAR

(* the run has computed the plan of the i-th table *)
HasPlanned(i) ==
    /\ Running
    /\ i < idx \/ (i = idx /\ pc \in {"write", "commit", "save"})
    /\ bronze[TABLES_WITH_YEAR[i]].exists
    /\ bronze["races"].exists
    /\ ~year_error(TABLES_WITH_YEAR[i])

(* the run is over with the i-th table *)
HasProcessed(i) == Running /\ i < idx

durable == load_state(state_file)

BronzeYears(t) == ToSet(bronze[t].rows)

NoneFailed(stats) == \A i \in DOMAIN stats : stats[i].status # "failed"

----------------------------------------------------------------------------
(* C1: in every state reached by runs alone (no injected failure, no crash,
   no reset), every year recorded as processed for a table, in memory or in
   the state file, has its rows in the table's silver file. *)
C1_ProcessedYearsAreMerged ==
    (faults = 0 /\ resets = 0) =>
        \A t \in TableSet :
            \A y \in get_processed_years(durable, t) \cup get_processed_years(state, t) :
                silver[t].kind = "parquet" /\ Count(silver[t].rows, y) >= 1

(* C2: when the previous process died after writing table T's silver file
   and before committing T's years, and the next run has processed T with
   success, the silver file holds the row of each year planned by the dead
   process exactly once. *)
C2_RetryWritesOnce ==
    (/\ prev.kind = "crash"
     /\ prev.pc = "commit"
     /\ HasProcessed(prev.idx)
     /\ stats_list[prev.idx].status = "success") =>
        \A y \in ToSet(prev.plans[TABLES_WITH_YEAR[prev.idx]]) :
            Count(silver[TABLES_WITH_YEAR[prev.idx]].rows, y) = 1

(* C3: a silver write that raises gives a 'failed' entry and leaves the
   processing state unchanged in memory and on disk; and the next run with
   the same source and the same mode plans for that table exactly the years
   the failed run had planned. *)
WriteFailedStep == pc = "write" /\ pc' \in {"table", "done"}

C3_SamePlanAfterFailedWrite ==
    \A i \in Indexes :
        (/\ prev.kind = "run"
         /\ i \in DOMAIN prev.stats
         /\ prev.stats[i].error = "write_error"
         /\ ~dirty
         /\ HasPlanned(i)
         /\ is_initial_load = prev.initial) =>
            plans[TABLES_WITH_YEAR[i]] = prev.plans[TABLES_WITH_YEAR[i]]

C3_FailedWriteKeepsState ==
    /\ [][WriteFailedStep =>
            /\ stats_list'[Len(stats_list')].status = "failed"
            /\ stats_list'[Len(stats_list')].table_name = table_name
            /\ state' = state
            /\ state_file' = state_file]_vars
    /\ []C3_SamePlanAfterFailedWrite

C3_Witness ==
    \E i \in Indexes :
        /\ prev.kind = "run"
        /\ i \in DOMAIN prev.stats
        /\ prev.stats[i].error = "write_error"
        /\ ~dirty
        /\ HasPlanned(i)
        /\ is_initial_load = prev.initial
        /\ plans[TABLES_WITH_YEAR[i]] # <<>>

(* C4: the second of two successive incremental runs over unchanged bronze
   data reports 'up_to_date' for every table and reaches no write of a
   silver file or of the state file. *)
SecondIncremental ==
    /\ Running
    /\ ~is_initial_load
    /\ prev.kind = "run"
    /\ ~prev.initial
    /\ ~dirty

WritesNothing ==
    /\ pc \in {"table", "done"}
    /\ \A i \in DOMAIN stats_list : stats_list[i].status = "up_to_date"

C4_SecondRunUpToDate == SecondIncremental => WritesNothing

(* C4 as amended: the same, when no table of the first run failed. *)
C4_SecondRunUpToDateAfterCleanRun ==
    (SecondIncremental /\ NoneFailed(prev.stats)) => WritesNothing

C4_Witness ==
    /\ SecondIncremental
    /\ NoneFailed(prev.stats)
    /\ pc = "done"
    /\ \E i \in DOMAIN prev.stats : prev.stats[i].status = "success"

(* C5: when an initial-load run and then an incremental run have both ended
   without a failed table, every table's processed_years lists exactly the
   years present in its source, each once, in memory and in the state file. *)
AfterInitialThenIncremental ==
    /\ pc = "done"
    /\ ~is_initial_load
    /\ NoneFailed(stats_list)
    /\ prev.kind = "run"
    /\ prev.initial
    /\ NoneFailed(prev.stats)

C5_AllSourceYearsProcessedOnce ==
    AfterInitialThenIncremental =>
        /\ durable = state
        /\ \A t \in TableSet :
            /\ get_processed_years(state, t) = BronzeYears(t)
            /\ \A y \in BronzeYears(t) : Count(state[t], y) = 1

C5_Witness ==
    /\ AfterInitialThenIncremental
    /\ \E i \in Indexes : prev.stats[i].status = "success"
    /\ \E i \in Indexes : stats_list[i].status = "success"

(* C6: a process that dies inside _save_state leaves a state file from
   which the next load returns the complete state of before the save or the
   complete state of after it. *)
C6_SaveIsAtomic ==
    (pc = "idle" /\ prev.kind = "crash" /\ prev.pc = "save") =>
        /\ state_file.kind # "truncated"
        /\ load_state(state_file) \in {load_state(saved_file), prev.state}

(* C7: no step other than reset_state removes a year from a table's
   processed set: not from the running process's memory, and not from the
   state file, whose every completed save holds at least the years of the
   last complete file before it. *)
ResetStep == pc = "reset_save" \/ pc' = "reset_save"

LastComplete == IF state_file.kind = "truncated" THEN load_state(saved_file)
                ELSE load_state(state_file)

C7_ProcessedYearsNeverShrink ==
    [][~ResetStep =>
        \A t \in TableSet :
            /\ (Running /\ Running') =>
                   get_processed_years(state, t) \subseteq get_processed_years(state', t)
            /\ state_file'.kind = "json" =>
                   get_processed_years(LastComplete, t)
                       \subseteq get_processed_years(state_file'.data, t)]_vars

C7_Witness ==
    /\ Running
    /\ state_file.kind = "json"
    /\ \E t \in TableSet :
        /\ get_processed_years(load_state(saved_file), t) # {}
        /\ get_processed_years(load_state(saved_file), t) # get_processed_years(durable, t)
        /\ get_processed_years(load_state(saved_file), t) \subseteq get_processed_years(durable, t)

(* C8: when a table starts processing, the state file holds the years of
   every earlier table of the run that reported 'success'; and after a
   process died while processing a later table, the state file still holds
   them. *)
Committed(stats, i) ==
    stats[i].status = "success" =>
        ToSet(stats[i].years_processed)
            \subseteq get_processed_years(durable, stats[i].table_name)

C8_EarlierCommitsAreDurable ==
    /\ pc = "table" => \A i \in DOMAIN stats_list : Committed(stats_list, i)
    /\ (pc = "idle" /\ prev.kind = "crash") =>
           \A i \in DOMAIN prev.stats : Committed(prev.stats, i)

(* C9: a run in which a table's transform raised still ends with one entry
   per table of TABLES_WITH_YEAR, in order; the entry of that table is
   'failed', and every later table that had years to process and raised
   nothing is 'success' with its years in the state file. *)
C9_FailureDoesNotStopTheRun ==
    (pc = "done" /\ \E x \in DOMAIN stats_list : stats_list[x].error = "transform_error") =>
        /\ Len(stats_list) = Len(TABLES_WITH_YEAR)
        /\ \A i \in DOMAIN stats_list : stats_list[i].table_name = TABLES_WITH_YEAR[i]
        /\ \A x \in DOMAIN stats_list :
            stats_list[x].error = "transform_error" =>
                /\ stats_list[x].status = "failed"
                /\ \A y \in DOMAIN stats_list :
                    (y > x /\ plans[stats_list[y].table_name] # <<>>
                           /\ stats_list[y].error = "") =>
                        /\ stats_list[y].status = "success"
                        /\ Committed(stats_list, y)

C9_Witness ==
    /\ pc = "done"
    /\ Len(stats_list) = 2
    /\ stats_list[1].error = "transform_error"
    /\ stats_list[2].status = "success"

(* C10: the first run, made as an initial load on an empty state, plans for
   each table exactly its available years up to INITIAL_LOAD_YEAR, and the
   incremental run that follows plans exactly the other available years:
   {2005, 2008} and then {2012, 2015} for the years 2005, 2008, 2012, 2015. *)
UpTo(S, cutoff) == {y \in S : y <= cutoff}

Example == Bronze(<<2005, 2008, 2012, 2015>>)

C10_InitialLoadPlan ==
    \A i \in Indexes :
        LET t == TABLES_WITH_YEAR[i] IN
        (runs = 1 /\ HasPlanned(i) /\ is_initial_load) =>
            /\ plans[t] = SortedList(UpTo(BronzeYears(t), INITIAL_LOAD_YEAR))
            /\ bronze[t] = Example => plans[t] = <<2005, 2008>>

C10_FollowingIncrementalPlan ==
    \A i \in Indexes :
        LET t == TABLES_WITH_YEAR[i] IN
        (/\ runs = 2
         /\ HasPlanned(i)
         /\ ~is_initial_load
         /\ prev.kind = "run"
         /\ prev.initial
         /\ prev.stats[i].status # "failed") =>
            /\ plans[t] = SortedList(BronzeYears(t) \ ToSet(prev.plans[t]))
            /\ (bronze[t] = Example /\ ~dirty) => plans[t] = <<2012, 2015>>

C10_BootstrapCutoff == C10_InitialLoadPlan /\ C10_FollowingIncrementalPlan

C10_Witness ==
    /\ runs = 2
    /\ pc = "done"
    /\ ~is_initial_load
    /\ prev.kind = "run"
    /\ prev.initial
    /\ NoneFailed(stats_list)
    /\ \A t \in TableSet :
        /\ bronze[t] = Example
        /\ prev.plans[t] = <<2005, 2008>>
        /\ plans[t] = <<2012, 2015>>

----------------------------------------------------------------------------
(* A step of process_table_incremental that computes the table's plan *)
PlanStep == BronzeRead /\ pc' # "idle"

NoneProcessed == get_processed_years(state, table_name) = {}

BootstrapSelection ==
    SortedList(UpTo(BronzeYears(table_name), INITIAL_LOAD_YEAR))

IncrementalSelection ==
    SortedList(BronzeYears(table_name) \ get_processed_years(state, table_name))

(* C11: the plan of a table is the bootstrap selection (its available years
   up to INITIAL_LOAD_YEAR) whenever the table has no processed years or the
   call is made with is_initial_load = True. *)
C11_BootstrapWhenEither ==
    [][(PlanStep /\ (is_initial_load \/ NoneProcessed)) =>
            plans'[table_name] = BootstrapSelection]_vars

(* C11 as amended: the plan is the bootstrap selection exactly when the
   call is made with is_initial_load = True and the table has no processed
   years; otherwise it is the available years not yet processed. *)
C11_BootstrapWhenBoth ==
    [][PlanStep =>
            plans'[table_name] = IF is_initial_load /\ NoneProcessed
                                 THEN BootstrapSelection
                                 ELSE IncrementalSelection]_vars

C11_Witness ==
    /\ pc = "write"
    /\ is_initial_load
    /\ NoneProcessed
    /\ plans[table_name] = <<2005, 2008>>
    /\ BronzeYears(table_name) = {2005, 2008, 2012, 2015}

(* C12: with is_initial_load = False the plan is exactly the available
   years that are not in the table's processed set, in ascending order,
   those at or below INITIAL_LOAD_YEAR included. *)
C12_IncrementalSelectsUnprocessed ==
    [][(PlanStep /\ ~is_initial_load) =>
            /\ ToSet(plans'[table_name])
                   = {y \in BronzeYears(table_name) :
                          y \notin get_processed_years(state, table_name)}
            /\ plans'[table_name] = SortedList(ToSet(plans'[table_name]))]_vars

C12_Witness ==
    /\ pc = "write"
    /\ ~is_initial_load
    /\ ~NoneProcessed
    /\ \E y \in ToSet(plans[table_name]) : y <= INITIAL_LOAD_YEAR
    /\ \E y \in get_processed_years(state, table_name) : y > INITIAL_LOAD_YEAR

----------------------------------------------------------------------------
(* A process constructs IncrementalProcessor: _load_state runs *)
Constructs == pc = "idle" /\ runs' = runs + 1

(* C14: when the state file does not exist the processor is constructed
   with an empty state and no error; when the file exists but cannot be
   parsed the construction fails, no table is processed and nothing on disk
   changes: the corrupt file is never taken for an empty state. *)
C14_MissingIsEmptyCorruptIsFatal ==
    [][Constructs =>
         /\ state_file.kind = "none" =>
                (state' = EmptyDict /\ prev'.kind # "load_error")
         /\ state_file.kind = "truncated" =>
                /\ prev'.kind = "load_error"
                /\ pc' = "idle"
                /\ stats_list' = <<>>
                /\ state' = state
                /\ UNCHANGED disk]_vars

C14_Witness ==
    /\ pc = "idle"
    /\ prev.kind = "load_error"
    /\ state_file.kind = "truncated"
    /\ \E t \in TableSet : silver[t].kind = "parquet"

LastEntry(stats) == stats[Len(stats)]

(* C15: when the plan of a table is empty the call returns 'up_to_date'
   with no years, and the silver file, the in-memory state and the state
   file are left as they were. *)
C15_EmptyPlanChangesNothing ==
    [][(PlanStep /\ plans'[table_name] = <<>>) =>
         /\ Len(stats_list') = Len(stats_list) + 1
         /\ LastEntry(stats_list') = Entry(table_name, "up_to_date", "", <<>>)
         /\ silver' = silver
         /\ state' = state
         /\ state_file' = state_file]_vars

C15_Witness ==
    /\ Running
    /\ stats_list # <<>>
    /\ LastEntry(stats_list).status = "up_to_date"
    /\ get_processed_years(state, LastEntry(stats_list).table_name) # {}
    /\ silver[LastEntry(stats_list).table_name].kind = "parquet"

(* A run of process_all_incremental starts *)
RunStarts == pc = "idle" /\ pc' = "table"

(* C16: with no mode forced the run is an initial load exactly when the
   loaded state is empty, and incremental otherwise; a forced mode is taken
   whatever the state holds. *)
C16_ModeChoice ==
    [][RunStarts =>
         /\ state' = load_state(state_file)
         /\ command' = "auto" => (is_initial_load' <=> state' = EmptyDict)
         /\ command' = "initial" => is_initial_load'
         /\ command' = "incremental" => ~is_initial_load']_vars

C16_Witness ==
    /\ pc = "table"
    /\ idx = 1
    /\ command = "auto"
    /\ is_initial_load
    /\ state_file = JsonFile(EmptyDict)

(* C20: within one call the steps come in the order plan, transform,
   write, commit: the write starts from the plan just made, the years are
   marked processed only after the silver file was written without error,
   and 'success' is reported only once the state file holds the new state. *)
C20_PlanWriteCommitOrder ==
    [][(pc # "idle" /\ pc' # "idle") =>
         /\ (pc' = "write" /\ pc # "write") =>
                /\ pc = "table"
                /\ years_to_process' = plans'[table_name]
                /\ years_to_process' # <<>>
         /\ (pc' = "commit" /\ pc # "commit") =>
                /\ pc = "write"
                /\ silver'[table_name] = Parquet(df_final)
         /\ state' # state =>
                /\ pc = "commit"
                /\ silver[table_name] = Parquet(df_final)
                /\ state' = mark_years_processed(state, table_name, years_to_process)
         /\ (Len(stats_list') > Len(stats_list)
                 /\ LastEntry(stats_list').status = "success") =>
                /\ pc = "save"
                /\ state_file' = JsonFile(state)
                /\ ToSet(years_to_process)
                       \subseteq get_processed_years(load_state(state_file'), table_name)]_vars

C20_Witness ==
    /\ pc = "table"
    /\ idx = 2
    /\ LastEntry(stats_list).status = "success"
    /\ silver[TABLES_WITH_YEAR[1]] = Parquet(LastEntry(stats_list).years_processed)
    /\ state_file = JsonFile(state)

----------------------------------------------------------------------------
(* C17: reset_state(T) removes table T's processed years only and leaves
   every other table's entry as it was loaded; reset_state() with no table
   empties the whole state; when the call returns, the state file holds
   exactly that result. *)
C17_ResetClearsOnlyItsTarget ==
    [][/\ (pc = "idle" /\ pc' = "reset_save") =>
            LET loaded == load_state(state_file)
            IN /\ target' \in ResetTargets
               /\ target' = "ALL" => state' = EmptyDict
               /\ target' # "ALL" =>
                     /\ DOMAIN state' = DOMAIN loaded \ {target'}
                     /\ \A t \in DOMAIN state' : state'[t] = loaded[t]
       /\ (pc = "reset_save" /\ prev'.kind = "reset") =>
            /\ state_file' = JsonFile(state)
            /\ UNCHANGED <<transformed_columns, silver_columns, bronze, silver>>]_vars

C17_Witness ==
    /\ pc = "idle"
    /\ prev.kind = "reset"
    /\ DOMAIN load_state(saved_file) = TableSet
    /\ \E t \in TableSet :
          /\ DOMAIN load_state(state_file) = TableSet \ {t}
          /\ \A u \in TableSet \ {t} :
                load_state(state_file)[u] = load_state(saved_file)[u]

----------------------------------------------------------------------------
(* C19: a table that is not in TABLES_WITH_YEAR passed to
   process_table_incremental gets the outcome 'skipped' at once: no silver
   or bronze file and no state file is touched, and the state in memory is
   the state that was loaded. *)
C19_DimensionTableIsSkipped ==
    [][(Constructs /\ pc' = "idle" /\ prev'.kind = "call") =>
         /\ Len(prev'.stats) = 1
         /\ prev'.stats[1].table_name \notin TableSet
         /\ prev'.stats[1].status = "skipped"
         /\ prev'.stats[1].years_processed = <<>>
         /\ prev'.state = load_state(state_file)
         /\ UNCHANGED disk]_vars

C19_Witness ==
    /\ pc = "idle"
    /\ prev.kind = "call"
    /\ prev.stats[1].table_name \in DIMENSION_TABLES
    /\ prev.stats[1].status = "skipped"
    /\ prev.state # EmptyDict
    /\ state_file = JsonFile(prev.state)

----------------------------------------------------------------------------
AllUpToDate(stats) ==
    /\ stats # <<>>
    /\ \A i \in DOMAIN stats : stats[i].status = "up_to_date"

(* C18: the incremental stage ends with a success result only if no fact
   table's outcome is 'failed', and a run in which every table is
   'up_to_date' ends with success. *)
C18_SuccessMeansNoFailedTable ==
    (pc = "idle" /\ prev.kind = "run") =>
        /\ prev.exit = "success" => NoneFailed(prev.stats)
        /\ AllUpToDate(prev.stats) => prev.exit = "success"

----------------------------------------------------------------------------
ExistingColumns == ToSet(silver_columns[table_name])

NewColumns == ToSet(transformed_columns[table_name])

(* C13: after an append the merged dataset's column set is the
   intersection of the existing and the new column sets, so new data with
   columns {A,B,C} appended to an existing dataset with columns {A,B,D}
   leaves exactly {A,B}; a mismatch is logged as a warning that names the
   columns found only on each side, and equal column sets log none. *)
C13_AppendKeepsCommonColumns ==
    [][/\ (pc = "table" /\ pc' = "write" /\ appends(table_name)) =>
            /\ ToSet(df_columns') = ExistingColumns \cap NewColumns
            /\ ExistingColumns # NewColumns =>
                  /\ warning'.mismatch
                  /\ warning'.existing_only = ExistingColumns \ NewColumns
                  /\ warning'.new_only = NewColumns \ ExistingColumns
            /\ ExistingColumns = NewColumns => warning' = NoWarning
       /\ (pc = "write" /\ pc' = "commit" /\ appends(table_name)) =>
            /\ ToSet(silver_columns'[table_name])
                   = ExistingColumns \cap NewColumns
            /\ (ExistingColumns = {"A", "B", "D"}
                   /\ NewColumns = {"A", "B", "C"}) =>
                  ToSet(silver_columns'[table_name]) = {"A", "B"}]_vars

C13_Witness ==
    /\ pc = "commit"
    /\ appends(table_name)
    /\ NewColumns = {"A", "B", "C"}
    /\ silver_columns[table_name] = <<"A", "B">>
    /\ warning = [mismatch |-> TRUE, existing_only |-> {"D"}, new_only |-> {"C"}]
    /\ Len(silver[table_name].rows) > Len(years_to_process)

----------------------------------------------------------------------------
(* The rows this call transforms: the bronze rows of the planned years *)
NewRows == filter_years(bronze[table_name].rows, years_to_process)

(* the same, with the rows of a null year kept or dropped by the filter *)
PossibleNewRows ==
    {NewRows} \cup (IF None \in ToSet(years_to_process) THEN {<<>>} ELSE {})

WriteStep == pc = "write" /\ pc' = "commit"

(* C21: when a silver file exists and the run is not an initial load, the
   dataset written is the existing rows followed by the newly transformed
   rows, on the common columns; in every other case (initial load, or no
   silver file yet) it is the newly transformed rows alone, with their own
   columns. *)
C21_WritesExistingThenNew ==
    [][WriteStep =>
         IF silver[table_name].kind # "none" /\ ~is_initial_load
         THEN /\ \E new \in PossibleNewRows :
                    silver'[table_name].rows = silver[table_name].rows \o new
              /\ ToSet(silver_columns'[table_name])
                     = ToSet(silver_columns[table_name])
                           \cap ToSet(transformed_columns[table_name])
         ELSE /\ silver'[table_name].rows \in PossibleNewRows
              /\ silver_columns'[table_name] = transformed_columns[table_name]]_vars

C21_Witness ==
    /\ pc = "commit"
    /\ ~is_initial_load
    /\ years_to_process # <<>>
    /\ Len(silver[table_name].rows) > Len(NewRows)
    /\ SubSeq(silver[table_name].rows,
              Len(silver[table_name].rows) - Len(NewRows) + 1,
              Len(silver[table_name].rows)) = NewRows

----------------------------------------------------------------------------
(* The call is about to reach pl.concat: the table has a plan, the run
   appends, and the existing silver file can be read *)
ReachesConcat ==
    /\ BronzeRead
    /\ plan_of(table_name) # <<>>
    /\ appends(table_name)
    /\ silver[table_name].kind = "parquet"

(* C22: before the concatenation the existing and the new dataset have the
   same column names in the same order, for every pair of schemas, two
   schemas with equal column sets in a different order included. *)
C22_ConcatInputsSameOrder ==
    ReachesConcat =>
        LET aligned == align_columns(silver_columns[table_name],
                                     transformed_columns[table_name])
        IN aligned[1] = aligned[2]

----------------------------------------------------------------------------
IsAscending(rows) ==
    \A i, j \in DOMAIN rows : i < j => rows[i] <= rows[j]

(* The rows the last write added at the end of the silver file *)
AddedRows ==
    LET rows == silver[table_name].rows
    IN SubSeq(rows, Len(rows) - Len(NewRows) + 1, Len(rows))

(* C24: the rows one invocation adds to the merged dataset of a table are
   in ascending year order, whatever the row order of the bronze file. *)
C24_AddedRowsAscending ==
    (pc = "commit" /\ None \notin ToSet(years_to_process)) =>
        /\ AddedRows = NewRows
        /\ IsAscending(AddedRows)

(* A step of the call for a table with a row that has no year, other than
   an injected failure or a crash *)
UnmappableStep ==
    /\ pc \in {"table", "write", "commit", "save"}
    /\ pc' # "idle"
    /\ faults' = faults
    /\ None \in BronzeYears(table_name)

(* C25: when a row of a fact table cannot be mapped to a year the call
   returns 'failed', writes nothing to silver and commits nothing. *)
C25_UnmappableRowsFail ==
    [][UnmappableStep =>
         /\ silver' = silver
         /\ state' = state
         /\ state_file' = state_file
         /\ Len(stats_list') > Len(stats_list) =>
                LastEntry(stats_list').status = "failed"]_vars

----------------------------------------------------------------------------
(* C26: a table whose bronze file does not exist aborts the whole run at
   once: no table after it is processed. *)
C26_MissingBronzeAbortsRun ==
    \A i \in DOMAIN stats_list :
        stats_list[i].error = "bronze_file_not_found" =>
            /\ Len(stats_list) = i
            /\ pc \notin {"write", "commit", "save"}

----------------------------------------------------------------------------
(* The tables the reset that ended last left without processed years *)
ResetTables == TableSet \ DOMAIN prev.state

(* C27: in a run that follows reset_state, auto-selected or forced
   incremental, the merged dataset of each reset table holds the rows of
   every year at most once: the run does not append a second copy of the
   years the untouched silver file already holds. *)
C27_RunAfterResetAddsNoCopy ==
    (/\ Running
     /\ prev.kind = "reset"
     /\ command \in {"auto", "incremental"}) =>
        \A t \in ResetTables : \A y \in Years :
            Count(silver[t].rows, y) <= 1

----------------------------------------------------------------------------
FailedTables ==
    {stats_list[i].table_name :
        i \in {j \in DOMAIN stats_list : stats_list[j].status = "failed"}}

(* C28: when the call for a table returns 'failed', no table's processed
   years have changed in memory or on disk, and no later commit of the same
   run persists years for the failed table; the case where the save of the
   state file raises inside mark_years_processed is included. *)
C28_FailedTableCommitsNothing ==
    [][/\ (Len(stats_list') > Len(stats_list)
              /\ LastEntry(stats_list').status = "failed") =>
            /\ state' = state
            /\ state_file' = state_file
       /\ (pc = "save" /\ pc' \in {"table", "done"}) =>
            \A t \in FailedTables :
                get_processed_years(load_state(state_file'), t)
                    = get_processed_years(load_state(saved_file), t)]_vars

----------------------------------------------------------------------------
(* get_years_to_process called on its own, on lists of any order and with
   repeated values *)

MaxLen == 3

PlannerYears == {2005, 2010, 2012}

PlannerInputs == UNION {[1..n -> PlannerYears] : n \in 0..MaxLen}

PlannerStates ==
    {EmptyDict} \cup
    {[t \in {"races"} |-> SortedList(S)] : S \in SUBSET PlannerYears \ {{}}}

process == <<pc, command, target, idx, locals, stats_list, plans, saved_file,
             prev, dirty, counters>>

(* No process has run yet and nothing has been written *)
NothingRun ==
    /\ silver = [t \in TableSet |-> NoParquet]
    /\ state_file = NoFile
    /\ transformed_columns = [t \in TableSet |-> InitColumns]
    /\ silver_columns = [t \in TableSet |-> <<>>]
    /\ pc = "idle"
    /\ command = ""
    /\ target = ""
    /\ idx = 0
    /\ years_to_process = <<>>
    /\ df_final = <<>>
    /\ df_columns = <<>>
    /\ warning = NoWarning
    /\ stats_list = <<>>
    /\ plans = NoPlans
    /\ saved_file = NoFile
    /\ prev = NoPrev
    /\ dirty = FALSE
    /\ runs = 0
    /\ faults = 0
    /\ ingests = 0
    /\ resets = 0

PlannerInit ==
    /\ NothingRun
    /\ bronze = [t \in TableSet |-> NoBronze]
    /\ state \in PlannerStates
    /\ is_initial_load \in BOOLEAN
    /\ call \in {[available_years |-> a, result |-> <<>>, returned |-> FALSE] :
                    a \in PlannerInputs}
    /\ procs = NoProcs

PlanCall ==
    /\ ~call.returned
    /\ call' = [call EXCEPT
                   !.result = get_years_to_process(state, "races",
                                  call.available_years, is_initial_load),
                   !.returned = TRUE]
    /\ UNCHANGED <<disk, process, state, is_initial_load, procs>>

PlannerNext == PlanCall

PlannerSpec == PlannerInit /\ [][PlannerNext]_vars

(* C23: for every list of available years, in any order and with or
   without repeated values, get_years_to_process returns a list sorted
   ascending in which no year occurs twice. *)
C23_PlanSortedWithoutRepeats ==
    call.returned =>
        /\ IsAscending(call.result)
        /\ \A y \in PlannerYears : Count(call.result, y) <= 1

----------------------------------------------------------------------------
(* Auto-mode runs repeated for ever over a source that does not change,
   with no failing step: every file exists, every row has a year, the
   columns stay, nothing raises and no process dies *)

LiveBronze ==
    {Bronze(<<2005, 2008, 2012, 2015>>), Bronze(<<2012, 2010>>), Bronze(<<2015>>)}

LiveInit ==
    /\ NothingRun
    /\ bronze \in [TableSet -> LiveBronze]
    /\ state = EmptyDict
    /\ is_initial_load = FALSE
    /\ call = NoCall
    /\ procs = NoProcs

(* main() without arguments, or the DAG task: one more run *)
StartAuto ==
    /\ pc = "idle"
    /\ state_file.kind # "truncated"
    /\ state' = load_state(state_file)
    /\ command' = "auto"
    /\ target' = ""
    /\ is_initial_load' = (DOMAIN state' = {})
    /\ pc' = "table"
    /\ idx' = 1
    /\ stats_list' = <<>>
    /\ plans' = NoPlans
    /\ UNCHANGED <<others, disk, locals, saved_file, prev, dirty, counters>>

LiveNext ==
    \/ StartAuto
    \/ UpToDate
    \/ Prepare
    \/ WriteSilver
    \/ Commit
    \/ SaveState
    \/ Finish

LiveSpec == LiveInit /\ [][LiveNext]_vars /\ WF_vars(LiveNext)

AllYearsProcessed ==
    \A t \in TableSet : BronzeYears(t) \subseteq get_processed_years(durable, t)

(* C29: under repeated auto-mode runs over a fixed source with no failing
   step, every available year of every fact table is eventually recorded
   as processed, also when no table has a year at or before
   INITIAL_LOAD_YEAR. *)
C29_EveryYearEventuallyProcessed == <>AllYearsProcessed

----------------------------------------------------------------------------
(* Two IncrementalProcessor instances whose auto-mode runs interleave
   table by table over the same files *)

TwoInit ==
    /\ NothingRun
    /\ bronze \in [TableSet -> LiveBronze]
    /\ state = EmptyDict
    /\ is_initial_load = FALSE
    /\ call = NoCall
    /\ procs = NoProcs

(* IncrementalProcessor(): the state is loaded once, then the mode is set *)
Construct(p) ==
    /\ procs[p].pc = "none"
    /\ procs' = [procs EXCEPT
                    ![p] = [pc |-> "run",
                            state |-> load_state(state_file),
                            initial |-> (DOMAIN load_state(state_file) = {}),
                            idx |-> 1]]
    /\ UNCHANGED <<disk, process, state, is_initial_load, call>>

(* process_table_incremental of instance p for its next table: plan, write
   the silver file, mark the years in its own copy and save the whole copy *)
ProcessTable(p) ==
    /\ procs[p].pc = "run"
    /\ LET t == TABLES_WITH_YEAR[procs[p].idx]
           years == get_years_to_process(procs[p].state, t, available_years(t),
                                         procs[p].initial)
           new == transform(filter_years(bronze[t].rows, years))
           marked == mark_years_processed(procs[p].state, t, years)
           next_pc == IF procs[p].idx + 1 > Len(TABLES_WITH_YEAR)
                      THEN "done" ELSE "run"
       IN IF years = <<>>
          THEN /\ procs' = [procs EXCEPT ![p].idx = @ + 1, ![p].pc = next_pc]
               /\ UNCHANGED <<silver, silver_columns, state_file>>
          ELSE /\ silver' = [silver EXCEPT
                                ![t] = Parquet(IF silver[t].kind # "none"
                                                  /\ ~procs[p].initial
                                               THEN silver[t].rows \o new
                                               ELSE new)]
               /\ silver_columns' = [silver_columns EXCEPT
                                        ![t] = transformed_columns[t]]
               /\ state_file' = JsonFile(marked)
               /\ procs' = [procs EXCEPT ![p].state = marked,
                                         ![p].idx = @ + 1,
                                         ![p].pc = next_pc]
    /\ UNCHANGED <<bronze, transformed_columns, process, state,
                   is_initial_load, call>>

TwoNext == \E p \in Processors : Construct(p) \/ ProcessTable(p)

TwoSpec == TwoInit /\ [][TwoNext]_vars

(* C30: with two instances whose runs interleave, no commit of one is
   removed from the state file by a later commit of the other: the durable
   processed years of every table never decrease. *)
C30_NoCommitLostBetweenInstances ==
    [][\A t \in TableSet :
          get_processed_years(load_state(state_file), t)
              \subseteq get_processed_years(load_state(state_file'), t)]_vars

====
